---- MODULE Spec2Model ----
(***************************************************************************)
(* JSON-RPC 2.0 over WebSocket session layer of the VR RPC server plugin:  *)
(* WsRpcServer (src/src/rpc/wsRpcServer.ts), the method registry           *)
(* (src/src/rpc/methods.ts), the frame codec rawToText and the plugin's    *)
(* change-version counter.  Every event-loop callback of the program is    *)
(* one action; a handler that awaits file I/O is split at the await.       *)
(***************************************************************************)
EXTENDS Integers, Sequences, FiniteSets, Bags, TLC

(* ------------------------------ bounds --------------------------------- *)

\* connections accepted in one run
MaxSock == 2
\* request handlers suspended on file I/O at one time
MaxMsgs == 2
\* outbound requests (callRemote) issued in one run
MaxCalls == 2
\* domain mutation events in one run
MaxVersion == 2
\* markdown files in the vault
MaxFiles == 202

Sock == 1..MaxSock

(* --------------------------- JavaScript values ------------------------- *)

Undef == [t |-> "undefined", v |-> ""]
Num(lit) == [t |-> "number", v |-> lit]
Str(s) == [t |-> "string", v |-> s]
JsNull == [t |-> "null", v |-> ""]
Bool(b) == [t |-> "boolean", v |-> b]
\* an array, represented by its join(",")
Arr(joined) == [t |-> "array", v |-> joined]
\* a params object, represented by its `path` member ("" when it has none)
\* and its sinceVersion, q, limit, heading and body members
ParamsOf(path, sinceVersion, q, limit, heading, body) ==
  [t |-> "object", v |-> path, sinceVersion |-> sinceVersion, q |-> q,
   limit |-> limit, heading |-> heading, body |-> body]
Params(path, sinceVersion) ==
  ParamsOf(path, sinceVersion, Undef, Undef, Undef, Undef)
Obj(path) == Params(path, Undef)

\* One JSON object as written on the wire; absent members are Undef.
Message(jsonrpc, id, method, params, result, error) ==
  [isObject |-> TRUE, jsonrpc |-> jsonrpc, id |-> id, method |-> method,
   params |-> params, result |-> result, error |-> error]

JsonNull ==
  [isObject |-> FALSE, jsonrpc |-> Undef, id |-> Undef, method |-> Undef,
   params |-> Undef, result |-> Undef, error |-> Undef]

V2 == Str("2.0")

(* ----------------------- frames a peer can send ------------------------ *)

\* JSON literals a peer can write for sinceVersion and the values they denote
SinceLiterals ==
  [lit \in {"-1", "0", "1", "3", "\"2\"", "\"\"", "\"abc\"", "true", "null",
            "[]", "{}"} |->
    CASE lit \in {"-1", "0", "1", "3"} -> Num(lit)
      [] lit = "\"2\"" -> Str("2")
      [] lit = "\"\"" -> Str("")
      [] lit = "\"abc\"" -> Str("abc")
      [] lit = "true" -> Bool("true")
      [] lit = "null" -> JsNull
      [] lit = "[]" -> Arr("")
      [] OTHER -> Params("", Undef)]

\* a graph.getSnapshot request that carries sinceVersion
SinceText(lit) ==
  "{\"jsonrpc\":\"2.0\",\"id\":5,\"method\":\"graph.getSnapshot\",\"params\":{\"sinceVersion\":"
    \o lit \o "}}"

SinceTexts == {SinceText(lit) : lit \in DOMAIN SinceLiterals}

\* JSON literals a peer can write for q and for limit ("" when it writes no
\* such member) and the values they denote
QLiterals ==
  [lit \in {"\"foo\"", "\"\"", "\"  \""} |->
    CASE lit = "\"foo\"" -> Str("foo")
      [] lit = "\"\"" -> Str("")
      [] OTHER -> Str("  ")]

LimitLiterals ==
  [lit \in {"", "0", "-1", "2", "250", "\"abc\""} |->
    CASE lit = "" -> Undef
      [] lit = "\"abc\"" -> Str("abc")
      [] OTHER -> Num(lit)]

\* a search.query request
SearchText(qlit, limlit) ==
  "{\"jsonrpc\":\"2.0\",\"id\":6,\"method\":\"search.query\",\"params\":{\"q\":"
    \o qlit \o (IF limlit = "" THEN "" ELSE ",\"limit\":" \o limlit) \o "}}"

SearchInputs ==
  ({"\"foo\""} \X DOMAIN LimitLiterals) \cup ({"\"\"", "\"  \""} \X {""})

SearchTexts == {SearchText(i[1], i[2]) : i \in SearchInputs}

\* note.create requests a peer can send: id, method name, path, heading and
\* body (<<>> when it writes no body)
CreateInputs ==
  {<<"7", "note.create", "a/b/c.md", "H", <<"text  ">>>>,
   <<"8", "createNote", "a//b/d.md", "H2", <<>>>>}

\* note.create requests with a blank path, a blank heading, a path that does
\* not end in .md, and a path through a/b/c.md
RefusalInputs ==
  {<<"9", "note.create", "  ", "H", <<>>>>,
   <<"10", "note.create", "a/b/c.md", "  ", <<>>>>,
   <<"11", "note.create", "a/b/notes.txt", "H", <<>>>>,
   <<"12", "note.create", "a/b/c.md/x.md", "H", <<>>>>}

CreateText(i) ==
  "{\"jsonrpc\":\"2.0\",\"id\":" \o i[1] \o ",\"method\":\"" \o i[2]
    \o "\",\"params\":{\"path\":\"" \o i[3] \o "\",\"heading\":\"" \o i[4] \o "\""
    \o (IF i[5] = <<>> THEN "" ELSE ",\"body\":\"" \o i[5][1] \o "\"") \o "}}"

CreateTexts == {CreateText(i) : i \in CreateInputs}
RefusalTexts == {CreateText(i) : i \in RefusalInputs}

\* The JSON texts of the model and the JSON value each one denotes, numbers
\* as the literal that is written.  Any other text is not JSON.
WireTable ==
  [t \in SinceTexts \cup SearchTexts \cup CreateTexts \cup RefusalTexts \cup
         {"{\"id\":1,\"method\":\"graph.getSnapshot\"}",
          "{\"jsonrpc\":\"2.0\",\"id\":1,\"method\":\"graph.getSnapshot\"}",
          "{\"jsonrpc\":\"2.0\",\"id\":\"1\",\"method\":\"note.getPreview\",\"params\":{\"path\":\"a.md\"}}",
          "{\"jsonrpc\":\"2.0\",\"id\":2,\"method\":\"note.getPreview\",\"params\":{\"path\":\"b.md\"}}",
          "{\"jsonrpc\":\"2.0\",\"id\":3,\"method\":\"note.getPreview\",\"params\":{}}",
          "{\"jsonrpc\":\"2.0\",\"id\":4,\"method\":\"nope\"}",
          "{\"jsonrpc\":\"2.0\",\"id\":9007199254740993,\"method\":\"graph.getSnapshot\"}",
          "{\"jsonrpc\":\"2.0\",\"method\":\"note.getPreview\",\"params\":{\"path\":\"a.md\"}}",
          "{\"jsonrpc\":\"2.0\",\"method\":\"note.getPreview\",\"params\":{}}",
          "{\"jsonrpc\":\"2.0\",\"method\":\"nope\"}",
          "{\"jsonrpc\":\"2.0\",\"id\":1,\"result\":\"ok\"}",
          "{\"jsonrpc\":\"2.0\",\"id\":1,\"error\":{\"code\":7,\"message\":\"no\"}}",
          "{\"jsonrpc\":\"2.0\",\"id\":2,\"error\":{\"code\":7,\"message\":\"no\"}}",
          "null"} |->
    CASE t = "{\"id\":1,\"method\":\"graph.getSnapshot\"}" ->
           Message(Undef, Num("1"), Str("graph.getSnapshot"), Undef, Undef, Undef)
      [] t = "{\"jsonrpc\":\"2.0\",\"id\":1,\"method\":\"graph.getSnapshot\"}" ->
           Message(V2, Num("1"), Str("graph.getSnapshot"), Undef, Undef, Undef)
      [] t = "{\"jsonrpc\":\"2.0\",\"id\":\"1\",\"method\":\"note.getPreview\",\"params\":{\"path\":\"a.md\"}}" ->
           Message(V2, Str("1"), Str("note.getPreview"), Obj("a.md"), Undef, Undef)
      [] t = "{\"jsonrpc\":\"2.0\",\"id\":2,\"method\":\"note.getPreview\",\"params\":{\"path\":\"b.md\"}}" ->
           Message(V2, Num("2"), Str("note.getPreview"), Obj("b.md"), Undef, Undef)
      [] t = "{\"jsonrpc\":\"2.0\",\"id\":3,\"method\":\"note.getPreview\",\"params\":{}}" ->
           Message(V2, Num("3"), Str("note.getPreview"), Obj(""), Undef, Undef)
      [] t = "{\"jsonrpc\":\"2.0\",\"id\":4,\"method\":\"nope\"}" ->
           Message(V2, Num("4"), Str("nope"), Undef, Undef, Undef)
      [] t = "{\"jsonrpc\":\"2.0\",\"id\":9007199254740993,\"method\":\"graph.getSnapshot\"}" ->
           Message(V2, Num("9007199254740993"), Str("graph.getSnapshot"), Undef, Undef, Undef)
      [] t = "{\"jsonrpc\":\"2.0\",\"method\":\"note.getPreview\",\"params\":{\"path\":\"a.md\"}}" ->
           Message(V2, Undef, Str("note.getPreview"), Obj("a.md"), Undef, Undef)
      [] t = "{\"jsonrpc\":\"2.0\",\"method\":\"note.getPreview\",\"params\":{}}" ->
           Message(V2, Undef, Str("note.getPreview"), Obj(""), Undef, Undef)
      [] t = "{\"jsonrpc\":\"2.0\",\"method\":\"nope\"}" ->
           Message(V2, Undef, Str("nope"), Undef, Undef, Undef)
      [] t = "{\"jsonrpc\":\"2.0\",\"id\":1,\"result\":\"ok\"}" ->
           Message(V2, Num("1"), Undef, Undef, Str("ok"), Undef)
      [] t = "{\"jsonrpc\":\"2.0\",\"id\":1,\"error\":{\"code\":7,\"message\":\"no\"}}" ->
           Message(V2, Num("1"), Undef, Undef, Undef, Str("no"))
      [] t = "{\"jsonrpc\":\"2.0\",\"id\":2,\"error\":{\"code\":7,\"message\":\"no\"}}" ->
           Message(V2, Num("2"), Undef, Undef, Undef, Str("no"))
      [] t \in SinceTexts ->
           Message(V2, Num("5"), Str("graph.getSnapshot"),
                   Params("", SinceLiterals[CHOOSE lit \in DOMAIN SinceLiterals :
                                              SinceText(lit) = t]),
                   Undef, Undef)
      [] t \in SearchTexts ->
           LET i == CHOOSE i \in SearchInputs : SearchText(i[1], i[2]) = t IN
           Message(V2, Num("6"), Str("search.query"),
                   ParamsOf("", Undef, QLiterals[i[1]], LimitLiterals[i[2]],
                            Undef, Undef),
                   Undef, Undef)
      [] t \in CreateTexts \cup RefusalTexts ->
           LET i == CHOOSE i \in CreateInputs \cup RefusalInputs :
                      CreateText(i) = t IN
           Message(V2, Num(i[1]), Str(i[2]),
                   ParamsOf(i[3], Undef, Undef, Undef, Str(i[4]),
                            IF i[5] = <<>> THEN Undef ELSE Str(i[5][1])),
                   Undef, Undef)
      [] OTHER -> JsonNull]

\* texts that are not JSON
NonJsonTexts == {"", "hello?", "{\"jsonrpc\":\"2.0\","}

\* A raw frame as the ws library hands it over: its runtime type and its
\* bytes as a sequence of chunks.
Raw(type, chunks) == [type |-> type, chunks |-> chunks]

RawFrames ==
  {Raw("buffer", <<t>>) : t \in ((DOMAIN WireTable)
                                    \ (SinceTexts \cup SearchTexts \cup CreateTexts
                                       \cup RefusalTexts))
                                  \cup NonJsonTexts}
  \cup {Raw("string", <<"{\"jsonrpc\":\"2.0\",\"id\":4,\"method\":\"nope\"}">>),
        Raw("arraybuffer", <<"{\"jsonrpc\":\"2.0\",\"id\":4,\"method\":\"nope\"}">>),
        Raw("fragments", <<"{\"jsonrpc\":\"2.0\",", "\"id\":4,\"method\":\"nope\"}">>),
        Raw("fragments", <<>>),
        Raw("other", <<"{\"jsonrpc\":\"2.0\",\"id\":4,\"method\":\"nope\"}">>)}

(* ------------------------------ codec ---------------------------------- *)

RECURSIVE concat(_)
concat(chunks) ==
  IF chunks = <<>> THEN "" ELSE Head(chunks) \o concat(Tail(chunks))

rawToText(raw) ==
  CASE raw.type = "string" -> raw.chunks[1]
    [] raw.type = "buffer" -> raw.chunks[1]
    [] raw.type = "arraybuffer" -> raw.chunks[1]
    [] raw.type = "fragments" -> concat(raw.chunks)
    [] OTHER -> ""

\* The IEEE-754 double nearest to a decimal literal, printed the way
\* JSON.stringify prints it: integers up to 2^53 are exact, 2^53+1 is not.
ToDouble(lit) ==
  IF lit = "9007199254740993" THEN "9007199254740992" ELSE lit

Revive(val) == IF val.t = "number" THEN Num(ToDouble(val.v)) ELSE val

\* JSON.parse: [ok |-> FALSE] stands for the SyntaxError it throws.
JSONParse(text) ==
  IF text \in DOMAIN WireTable
    THEN [ok |-> TRUE,
          payload |-> [WireTable[text] EXCEPT !.id = Revive(@)]]
    ELSE [ok |-> FALSE, payload |-> JsonNull]

(* ------------------------- outbound frames ----------------------------- *)

\* One frame written to a socket: the JSON text of JSON.stringify, kept as
\* its members.  version is -1, text is "" and results is <<>> where the
\* member is absent.
Frame(kind, id, method, version, text, code) ==
  [kind |-> kind, id |-> id, method |-> method, version |-> version,
   text |-> text, code |-> code, results |-> <<>>, created |-> FALSE]

createJSONRPCNotification(method, version) ==
  Frame("notification", Undef, method, version, "", 0)

createJSONRPCRequest(id, method) ==
  Frame("request", id, method, -1, "", 0)

\* a reply whose id went through String(): "1" for the number 1
createJSONRPCSuccessResponseStringId(id, result) ==
  [Frame("result", Str(id.v), "", result.version, result.text, 0)
     EXCEPT !.results = result.results, !.created = result.created]

createJSONRPCSuccessResponse(id, result) ==
  [Frame("result", id, "", result.version, result.text, 0)
     EXCEPT !.results = result.results, !.created = result.created]

createJSONRPCErrorResponse(id, code, message) ==
  Frame("error", id, "", -1, message, code)

NoFrame == Frame("none", Undef, "", -1, "", 0)

IsResponse(f) == f.kind \in {"result", "error"}

(* --------------------------- method registry --------------------------- *)

registerRpcMethods ==
  {"graph.getSnapshot", "note.getPreview", "search.query", "note.create",
   "createNote"}

\* the notes of the vault (vault.getAbstractFileByPath finds exactly these)
VaultFiles == {"a.md", "b.md"}

\* A handler's outcome up to its first await: st is "return" (result),
\* "throw" (message) or "await" (suspended on vault.cachedRead, or, in
\* rpcNoteCreate, on the store operation that pc names).
Outcome(st, result, message) ==
  [st |-> st, result |-> result, message |-> message, pc |-> ""]

\* what a handler returns: the version and text members of its result, the
\* results array of a search, and the files whose content it has read
Result(version, text) ==
  [version |-> version, text |-> text, results |-> <<>>, reads |-> <<>>,
   created |-> FALSE]

NoResult == Result(-1, "")

\* a JavaScript number: NaN, or the integer n
NaN == [nan |-> TRUE, n |-> 0]
Finite(n) == [nan |-> FALSE, n |-> n]

\* the value of a decimal literal
Decimal(lit) ==
  CASE lit = "-1" -> -1
    [] lit = "0" -> 0
    [] lit = "1" -> 1
    [] lit = "2" -> 2
    [] lit = "3" -> 3
    [] lit = "7" -> 7
    [] lit = "8" -> 8
    [] lit = "50" -> 50
    [] lit = "200" -> 200
    [] lit = "250" -> 250

\* Number(val)
ToNumber(val) ==
  CASE val.t = "number" -> Finite(Decimal(val.v))
    [] val.t = "string" ->
         IF val.v = "" THEN Finite(0)
         ELSE IF val.v \in {"-1", "0", "1", "2", "3", "50", "200", "250"}
           THEN Finite(Decimal(val.v))
         ELSE NaN
    [] val.t = "boolean" -> IF val.v = "true" THEN Finite(1) ELSE Finite(0)
    [] val.t = "array" -> IF val.v = "" THEN Finite(0) ELSE NaN
    [] val.t = "null" -> Finite(0)
    [] OTHER -> NaN

\* a >= b on JavaScript numbers: false when either is NaN
Geq(a, b) == ~a.nan /\ ~b.nan /\ a.n >= b.n

\* a snapshot answer that requires sinceVersion to be newer than the version
rpcGraphGetSnapshotStrict(params, version) ==
  LET p == IF params.t = "object" THEN params ELSE Params("", Undef)
      sinceVersion ==
        ToNumber(IF p.sinceVersion \in {Undef, JsNull} THEN Num("-1")
                 ELSE p.sinceVersion) IN
  IF Geq(sinceVersion, Finite(0)) /\ Geq(sinceVersion, Finite(version + 1))
    THEN Outcome("return", Result(version, "unchanged"), "")
    ELSE Outcome("return", Result(version, "snapshot"), "")

\* const sinceVersion = Number(p.sinceVersion ?? -1); the answer is either
\* {version, changed: false} or the full snapshot with its version
rpcGraphGetSnapshot(params, version) ==
  LET p == IF params.t = "object" THEN params ELSE Params("", Undef)
      sinceVersion ==
        ToNumber(IF p.sinceVersion \in {Undef, JsNull} THEN Num("-1")
                 ELSE p.sinceVersion) IN
  IF Geq(sinceVersion, Finite(0)) /\ Geq(sinceVersion, Finite(version))
    THEN Outcome("return", Result(version, "unchanged"), "")
    ELSE Outcome("return", Result(version, "snapshot"), "")

rpcNoteGetPreview(params) ==
  LET path == IF params.t = "object" THEN params.v ELSE "" IN
  IF path = "" THEN Outcome("throw", NoResult, "Missing params.path")
  ELSE IF path \notin VaultFiles
    THEN Outcome("throw", NoResult, "Not a file: " \o path)
  ELSE Outcome("await", NoResult, "")

\* rpcNoteGetPreview after vault.cachedRead settled
rpcNoteGetPreviewResume(params, readOk) ==
  IF readOk
    THEN Outcome("return", Result(-1, params.v), "")
    ELSE Outcome("throw", NoResult, "read failed")

\* Math.min on JavaScript numbers: NaN when either is NaN
Min(a, b) == IF a.nan \/ b.nan THEN NaN ELSE IF a.n <= b.n THEN a ELSE b

\* String.prototype.trim
Trim(str) == IF str \in {"", "  "} THEN "" ELSE str

\* vault.getMarkdownFiles(): the notes in the store's file order
getMarkdownFiles == [k \in 1..MaxFiles |-> k]

\* content.toLowerCase().indexOf(q.toLowerCase()) # -1: every note but the
\* second holds the text "foo"
Contains(f, q) == q = "foo" /\ f # 2

\* const limit = Math.min(Number(p.limit ?? 50), 200)
searchLimit(p) ==
  Min(ToNumber(IF p.limit \in {Undef, JsNull} THEN Num("50") ELSE p.limit),
      Finite(200))

searchQ(p) == IF p.q.t = "string" THEN Trim(p.q.v) ELSE ""

\* One iteration of the scan loop of rpcSearchQuery, for file f: break when
\* results.length >= limit, else read f and push it if it holds q.  st is
\* the results collected, the files whose content was read, and whether the
\* loop has ended.
scanStep(st, f, limit, q) ==
  IF st.done THEN st
  ELSE IF Geq(Finite(Len(st.results)), limit) THEN [st EXCEPT !.done = TRUE]
  ELSE [results |-> IF Contains(f, q) THEN Append(st.results, f) ELSE st.results,
        reads |-> Append(st.reads, f),
        done |-> FALSE]

\* the iterations for files[pos] .. files[last]
RECURSIVE scanBlock(_, _, _, _, _, _)
scanBlock(files, pos, last, st, limit, q) ==
  IF pos > last \/ st.done THEN st
  ELSE scanBlock(files, pos + 1, last, scanStep(st, files[pos], limit, q),
                 limit, q)

\* for (const f of files), taken sixteen iterations at a time to keep the
\* evaluation shallow
RECURSIVE scan(_, _, _, _, _)
scan(files, pos, st, limit, q) ==
  IF pos > Len(files) \/ st.done THEN st
  ELSE scan(files, pos + 16,
            scanBlock(files, pos,
                      IF pos + 15 > Len(files) THEN Len(files) ELSE pos + 15,
                      st, limit, q),
            limit, q)

ScanStart == [results |-> <<>>, reads |-> <<>>, done |-> FALSE]

\* rpcSearchQuery up to its first await vault.cachedRead
rpcSearchQuery(params) ==
  LET p == IF params.t = "object" THEN params ELSE Params("", Undef) IN
  IF searchQ(p) = "" THEN Outcome("throw", NoResult, "Missing params.q")
  ELSE IF getMarkdownFiles = <<>> \/ Geq(Finite(0), searchLimit(p))
    THEN Outcome("return", Result(-1, searchQ(p)), "")
  ELSE Outcome("await", NoResult, "")

\* a search that reads every note and cuts the results to the limit afterwards
rpcSearchQueryPostFilter(params, readOk) ==
  LET p == IF params.t = "object" THEN params ELSE Params("", Undef)
      r == scan(getMarkdownFiles, 1, ScanStart, NaN, searchQ(p))
      n == IF searchLimit(p).nan \/ searchLimit(p).n > Len(r.results)
             THEN Len(r.results) ELSE searchLimit(p).n IN
  IF ~readOk THEN Outcome("throw", NoResult, "read failed")
  ELSE Outcome("return",
               [Result(-1, searchQ(p)) EXCEPT !.results = SubSeq(r.results, 1, n),
                                              !.reads = r.reads], "")

\* rpcSearchQuery after its first vault.cachedRead settled: the reads of one
\* scan depend on no other event, so the scan runs to its end in one step
rpcSearchQueryResume(params, readOk) ==
  LET p == IF params.t = "object" THEN params ELSE Params("", Undef)
      r == scan(getMarkdownFiles, 1, ScanStart, searchLimit(p), searchQ(p)) IN
  IF ~readOk THEN Outcome("throw", NoResult, "read failed")
  ELSE Outcome("return",
               [Result(-1, searchQ(p)) EXCEPT !.results = r.results,
                                              !.reads = r.reads], "")

\* String.prototype.trimEnd
TrimEnd(str) == IF str = "text  " THEN "text" ELSE Trim(str)

\* obsidian's normalizePath: repeated slashes collapse
normalizePath(path) == IF path = "a//b/d.md" THEN "a/b/d.md" ELSE path

\* path.toLowerCase().endsWith(".md")
EndsWithMd(path) == path \in {"a/b/c.md", "a/b/d.md", "a/b/c.md/x.md"}

\* the paths that ensureFolderPath walks for the folder of a note path:
\* path.split("/").slice(0, -1), each segment joined to the ones before it
FolderPaths(path) ==
  CASE path \in {"a/b/c.md", "a/b/d.md", "a/b/notes.txt"} -> <<"a", "a/b">>
    [] path = "a/b/c.md/x.md" -> <<"a", "a/b", "a/b/c.md">>
    [] OTHER -> <<>>

\* vault.getAbstractFileByPath: "folder" (TFolder), "file" (TFile) or "none"
getAbstractFileByPath(store, path) ==
  IF path \in store.folders THEN "folder"
  ELSE IF \E f \in store.files : f.path = path THEN "file"
  ELSE "none"

Suspended(pc) == [Outcome("await", NoResult, "") EXCEPT !.pc = pc]

\* ensureFolderPath from its i-th segment on, and then the call of
\* vault.create: the handler suspends on createFolder of the first segment
\* that does not exist, or on vault.create when every folder exists
RECURSIVE ensureFolderPath(_, _, _)
ensureFolderPath(store, folders, i) ==
  IF i > Len(folders) THEN Suspended("create")
  ELSE CASE getAbstractFileByPath(store, folders[i]) = "none" ->
              Suspended(folders[i])
         [] getAbstractFileByPath(store, folders[i]) = "folder" ->
              ensureFolderPath(store, folders, i + 1)
         [] OTHER ->
              Outcome("throw", NoResult,
                      "Path segment is not a folder: " \o folders[i])

createHeading(p) == IF p.heading.t = "string" THEN Trim(p.heading.v) ELSE ""

createPath(p) == normalizePath(Trim(p.v))

\* `# ${heading}\n\n${body.trimEnd()}\n`
createContent(p) ==
  "# " \o createHeading(p) \o "\n\n"
    \o (IF p.body.t = "string" THEN TrimEnd(p.body.v) ELSE "") \o "\n"

\* a note.create that does not look for an existing file at the path
rpcNoteCreateOverwrite(params, store) ==
  LET p == IF params.t = "object" THEN params ELSE Params("", Undef) IN
  IF Trim(p.v) = "" THEN Outcome("throw", NoResult, "Missing params.path")
  ELSE IF createHeading(p) = ""
    THEN Outcome("throw", NoResult, "Missing params.heading")
  ELSE IF ~EndsWithMd(createPath(p))
    THEN Outcome("throw", NoResult, "params.path must end with .md")
  ELSE ensureFolderPath(store, FolderPaths(createPath(p)), 1)

\* rpcNoteCreate up to its first await
rpcNoteCreate(params, store) ==
  LET p == IF params.t = "object" THEN params ELSE Params("", Undef) IN
  IF Trim(p.v) = "" THEN Outcome("throw", NoResult, "Missing params.path")
  ELSE IF createHeading(p) = ""
    THEN Outcome("throw", NoResult, "Missing params.heading")
  ELSE IF ~EndsWithMd(createPath(p))
    THEN Outcome("throw", NoResult, "params.path must end with .md")
  ELSE IF getAbstractFileByPath(store, createPath(p)) = "file"
    THEN Outcome("throw", NoResult, "File already exists: " \o createPath(p))
  ELSE ensureFolderPath(store, FolderPaths(createPath(p)), 1)

\* the index of a folder path in the walk
SegmentOf(folders, pc) == CHOOSE i \in DOMAIN folders : folders[i] = pc

\* a handler that looks for the target again once the folders are there and
\* refuses in its own words
rpcNoteCreateResumeRecheck(params, store, pc, ok) ==
  LET p == IF params.t = "object" THEN params ELSE Params("", Undef)
      path == createPath(p)
      made == [store EXCEPT !.folders = @ \cup {pc}]
      written == [store EXCEPT !.files =
                    @ \cup {[path |-> path, content |-> createContent(p)]}] IN
  IF ~ok THEN [o |-> Outcome("throw", NoResult, "write failed"), store |-> store]
  ELSE IF pc = "create"
    THEN IF getAbstractFileByPath(store, path) # "none"
           THEN [o |-> Outcome("throw", NoResult,
                               "File already exists: " \o path),
                 store |-> store]
           ELSE [o |-> Outcome("return",
                               [Result(-1, path) EXCEPT !.created = TRUE], ""),
                 store |-> written]
  ELSE IF getAbstractFileByPath(store, pc) # "none"
    THEN [o |-> Outcome("throw", NoResult, "Folder already exists."),
          store |-> store]
  ELSE [o |-> ensureFolderPath(made, FolderPaths(path),
                               SegmentOf(FolderPaths(path), pc) + 1),
        store |-> made]

\* The store operation that rpcNoteCreate awaits settles and the handler runs
\* on to its next await or to its end.  vault.createFolder and vault.create
\* take effect when they settle and fail when their path already exists;
\* ok is FALSE when the operation fails for another reason.  The outcome and
\* the store as the step leaves it.
rpcNoteCreateResume(params, store, pc, ok) ==
  LET p == IF params.t = "object" THEN params ELSE Params("", Undef)
      path == createPath(p)
      made == [store EXCEPT !.folders = @ \cup {pc}]
      written == [store EXCEPT !.files =
                    @ \cup {[path |-> path, content |-> createContent(p)]}] IN
  IF ~ok THEN [o |-> Outcome("throw", NoResult, "write failed"), store |-> store]
  ELSE IF pc = "create"
    THEN IF getAbstractFileByPath(store, path) # "none"
           THEN [o |-> Outcome("throw", NoResult, "File already exists."),
                 store |-> store]
           ELSE [o |-> Outcome("return",
                               [Result(-1, path) EXCEPT !.created = TRUE], ""),
                 store |-> written]
  ELSE IF getAbstractFileByPath(store, pc) # "none"
    THEN [o |-> Outcome("throw", NoResult, "Folder already exists."),
          store |-> store]
  ELSE [o |-> ensureFolderPath(made, FolderPaths(path),
                               SegmentOf(FolderPaths(path), pc) + 1),
        store |-> made]

\* the registered handler for a method name, run up to its first await
callHandler(method, params, version, store) ==
  CASE method = "graph.getSnapshot" -> rpcGraphGetSnapshot(params, version)
    [] method = "search.query" -> rpcSearchQuery(params)
    [] method \in {"note.create", "createNote"} -> rpcNoteCreate(params, store)
    [] OTHER -> rpcNoteGetPreview(params)

\* the same handler from its first await on
resumeHandler(method, params, readOk) ==
  CASE method = "search.query" -> rpcSearchQueryResume(params, readOk)
    [] OTHER -> rpcNoteGetPreviewResume(params, readOk)

(* ------------------------ JSON-RPC envelope rules ---------------------- *)

isJSONRPCRequest(p) ==
  /\ p.jsonrpc = V2
  /\ p.method # Undef
  /\ p.result = Undef
  /\ p.error = Undef

isJSONRPCResponse(p) ==
  /\ p.jsonrpc = V2
  /\ p.id # Undef
  /\ (p.result # Undef \/ p.error # Undef)

\* a mapping that answers whether or not the message has an id
mapOutcomeAlways(id, o) ==
  IF o.st = "return" THEN createJSONRPCSuccessResponse(id, o.result)
  ELSE createJSONRPCErrorResponse(id, 0, o.message)

\* a mapping that hides the error's message
mapOutcomeGeneric(id, o) ==
  IF id = Undef THEN NoFrame
  ELSE IF o.st = "return" THEN createJSONRPCSuccessResponse(id, o.result)
  ELSE createJSONRPCErrorResponse(id, 0, "Internal error")

\* The Response for a settled handler outcome; NoFrame for a notification.
\* A handler failure maps to the library's default error code, 0.
mapOutcome(id, o) ==
  IF id = Undef THEN NoFrame
  ELSE IF o.st = "return" THEN createJSONRPCSuccessResponse(id, o.result)
  ELSE createJSONRPCErrorResponse(id, 0, o.message)

\* an unregistered method that is passed over in silence
methodNotFoundDrop(id) == NoFrame

\* JSONRPCServer.receive for a method that is not registered
methodNotFound(id) ==
  IF id = Undef THEN NoFrame
  ELSE createJSONRPCErrorResponse(id, -32601, "Method not found")

(* ------------------------------- state --------------------------------- *)

VARIABLES
  wss,           \* WsRpcServer.wss is set
  listening,     \* the WebSocketServer held by wss has bound its port
  vault,         \* the note store: the paths of its folders, and its files
                 \* created by note.create as [path, content]
  clients,       \* WsRpcServer.clients: the sockets that have a session
  sockState,     \* per socket: "none", "open", "closing_local" (ws.close()
                 \* was called), "closing_peer" (the peer's close frame
                 \* arrived), "closed" (the 'close' event was emitted)
  pending,       \* per session: the ids in JSONRPCClient.idToResolveMap
  calls,         \* per session: for each outbound request issued, how often
                 \* its promise was settled with an error / with a result,
                 \* and by what ("send", "drain", "response")
  graphVersion,  \* VrRpcServerPlugin.graphVersion
  inflight,      \* the requests and notifications whose handler is suspended
                 \* at an await: a bag of [sock, text]
  io,            \* the last event: its name, socket, inbound text, what became
                 \* of it, the Response it produced, and the frames it wrote
                 \* to each socket, in order
  first,         \* per socket: the first frame ever written to it
  hellos         \* per socket: the number of hello frames written to it

vars ==
  <<wss, listening, vault, clients, sockState, pending, calls, graphVersion, inflight, io,
    first, hellos>>

\* ws.readyState
readyState(s) ==
  CASE sockState[s] = "open" -> "OPEN"
    [] sockState[s] \in {"closing_local", "closing_peer"} -> "CLOSING"
    [] OTHER -> "CLOSED"

Silent == [s \in Sock |-> <<>>]

Event(op, s, text, what, reply, frames) ==
  [op |-> op, sock |-> s, text |-> text, what |-> what, reply |-> reply,
   frames |-> frames, reads |-> <<>>, rejected |-> FALSE, unhandled |-> FALSE]

Init ==
  /\ wss = FALSE
  /\ listening = FALSE
  /\ vault = [folders |-> {}, files |-> {}]
  /\ clients = {}
  /\ sockState = [s \in Sock |-> "none"]
  /\ pending = [s \in Sock |-> {}]
  /\ calls = [s \in Sock |-> <<>>]
  /\ graphVersion = 0
  /\ inflight = EmptyBag
  /\ io = Event("init", 0, "", "", NoFrame, Silent)
  /\ first = [s \in Sock |-> NoFrame]
  /\ hellos = [s \in Sock |-> 0]

(* --------------------------- session helpers --------------------------- *)

\* a send callback that writes whatever the state of the socket
sendUnchecked(o, s, frame) == [o EXCEPT ![s] = Append(@, frame)]

\* The JSONRPCClient send callback: reject unless the socket is open,
\* otherwise write the frame.  o is the frames written so far in this event.
send(o, s, frame) ==
  IF readyState(s) # "OPEN" THEN o ELSE [o EXCEPT ![s] = Append(@, frame)]

\* whether the send callback's promise is rejected
sendFails(s) == readyState(s) # "OPEN"

\* the event's frames go out: the bookkeeping of what each socket has seen
Written(frames) ==
  /\ first' = [s \in Sock |->
                 IF first[s] = NoFrame /\ frames[s] # <<>>
                   THEN frames[s][1] ELSE first[s]]
  /\ hellos' = [s \in Sock |->
                  hellos[s] + Cardinality({k \in DOMAIN frames[s] :
                                             frames[s][k].method = "hello"})]

IdOf(k) == Num(ToString(k))

\* JSONRPCClient.rejectAllPendingRequests: settle every pending call with an
\* error response ...
rejectAllCalls(s) ==
  [k \in DOMAIN calls[s] |->
     IF IdOf(k) \in pending[s]
       THEN [calls[s][k] EXCEPT !.rejected = @ + 1, !.by = "drain"]
       ELSE calls[s][k]]

\* a drain that leaves the table as it is
keepPending(s) == pending[s]

\* ... and clear the table
clearPending(s) == {}

\* the sockets of WsRpcServer.clients in Map iteration (insertion) order
RECURSIVE inOrder(_, _)
inOrder(set, n) ==
  IF n > MaxSock THEN <<>>
  ELSE IF n \in set THEN <<n>> \o inOrder(set, n + 1)
  ELSE inOrder(set, n + 1)

\* a loop that a rejected send ends
RECURSIVE notifyEachAbort(_, _, _)
notifyEachAbort(o, todo, frame) ==
  IF todo = <<>> \/ sendFails(Head(todo)) THEN o
  ELSE notifyEachAbort(send(o, Head(todo), frame), Tail(todo), frame)

\* JSONRPCClient.notify on each session in turn; a rejected send is ignored
RECURSIVE notifyEach(_, _, _)
notifyEach(o, todo, frame) ==
  IF todo = <<>> THEN o
  ELSE notifyEach(send(o, Head(todo), frame), Tail(todo), frame)

\* a broadcast that reaches the first session only
notifyAllFirst(method, version) ==
  notifyEach(Silent,
             IF clients = {} THEN <<>> ELSE <<Head(inOrder(clients, 1))>>,
             createJSONRPCNotification(method, version))

notifyAll(method, version) ==
  notifyEach(Silent, inOrder(clients, 1),
             createJSONRPCNotification(method, version))

\* a hello that carries the version the plugin was constructed with
helloStale(version) == createJSONRPCNotification("hello", 0)

\* serverAndClient.notify("hello", {version}) in the connection handler
hello(version) == createJSONRPCNotification("hello", version)

(* ------------------------------ actions -------------------------------- *)

\* start(): new WebSocketServer({port, host}) returns whether or not the
\* port can be bound; a bind failure is emitted later as an 'error' event of
\* the server object, for which no listener is registered
start(bindOk) ==
  /\ ~wss
  /\ wss' = TRUE
  /\ listening' = bindOk
  /\ io' = Event("start", 0, "", "returned", NoFrame, Silent)
  /\ UNCHANGED <<vault, clients, sockState, pending, calls, graphVersion,
                 inflight, first, hellos>>

\* wss.on("connection"): sockets are numbered in the order they connect
Connection(s) ==
  /\ listening
  /\ sockState[s] = "none"
  /\ \A r \in Sock : r < s => sockState[r] # "none"
  /\ sockState' = [sockState EXCEPT ![s] = "open"]
  /\ clients' = clients \cup {s}
  /\ LET frames == [Silent EXCEPT ![s] = <<hello(graphVersion)>>] IN
     /\ io' = Event("connection", s, "", "", NoFrame, frames)
     /\ Written(frames)
  /\ UNCHANGED <<wss, listening, vault, pending, calls, graphVersion, inflight>>

\* the peer's close frame arrives: ws moves the socket to CLOSING
PeerClose(s) ==
  /\ sockState[s] = "open"
  /\ sockState' = [sockState EXCEPT ![s] = "closing_peer"]
  /\ io' = Event("peerclose", s, "", "", NoFrame, Silent)
  /\ UNCHANGED <<wss, listening, vault, clients, pending, calls, graphVersion, inflight, first,
                 hellos>>

\* a close handler that drains the session and leaves it in the live set
OnCloseKeepsSession(s) ==
  /\ sockState[s] \in {"open", "closing_local", "closing_peer"}
  /\ sockState' = [sockState EXCEPT ![s] = "closed"]
  /\ calls' = [calls EXCEPT ![s] = rejectAllCalls(s)]
  /\ pending' = [pending EXCEPT ![s] = clearPending(s)]
  /\ io' = Event("close", s, "", "", NoFrame, Silent)
  /\ UNCHANGED <<wss, listening, vault, clients, graphVersion, inflight, first, hellos>>

\* ws.on("close"): after a closing handshake, or at once when the
\* connection is lost
OnClose(s) ==
  /\ sockState[s] \in {"open", "closing_local", "closing_peer"}
  /\ sockState' = [sockState EXCEPT ![s] = "closed"]
  /\ calls' = [calls EXCEPT ![s] = rejectAllCalls(s)]
  /\ pending' = [pending EXCEPT ![s] = clearPending(s)]
  /\ clients' = clients \ {s}
  /\ io' = Event("close", s, "", "", NoFrame, Silent)
  /\ UNCHANGED <<wss, listening, vault, graphVersion, inflight, first, hellos>>

\* a stop that closes the listening socket and leaves the sessions alone
stopListenerOnly ==
  /\ wss' = FALSE
  /\ listening' = FALSE
  /\ io' = Event("stop", 0, "", "", NoFrame, Silent)
  /\ UNCHANGED <<vault, clients, sockState, pending, calls, graphVersion,
                 inflight, first, hellos>>

stop ==
  /\ calls' = [s \in Sock |-> IF s \in clients THEN rejectAllCalls(s) ELSE calls[s]]
  /\ pending' = [s \in Sock |->
                   IF s \in clients THEN clearPending(s) ELSE pending[s]]
  /\ sockState' = [s \in Sock |->
                     IF s \in clients /\ sockState[s] = "open"
                       THEN "closing_local" ELSE sockState[s]]
  /\ clients' = {}
  /\ wss' = FALSE
  /\ listening' = FALSE
  /\ io' = Event("stop", 0, "", "", NoFrame, Silent)
  /\ UNCHANGED <<vault, graphVersion, inflight, first, hellos>>

\* a bump that notifies before it increments
bumpNotifyFirst ==
  /\ wss
  /\ graphVersion < MaxVersion
  /\ graphVersion' = graphVersion + 1
  /\ LET frames == notifyAll("graph.changed", graphVersion) IN
     /\ io' = Event("bump", 0, "", "", NoFrame, frames)
     /\ Written(frames)
  /\ UNCHANGED <<wss, listening, vault, clients, sockState, pending, calls, inflight>>

\* a vault modify / create / delete / rename event, registered while loaded
bumpGraphVersion ==
  /\ wss
  /\ graphVersion < MaxVersion
  /\ graphVersion' = graphVersion + 1
  /\ LET frames == notifyAll("graph.changed", graphVersion + 1) IN
     /\ io' = Event("bump", 0, "", "", NoFrame, frames)
     /\ Written(frames)
  /\ UNCHANGED <<wss, listening, vault, clients, sockState, pending, calls, inflight>>

RECURSIVE issued(_)
issued(n) == IF n = 0 THEN 0 ELSE Len(calls[n]) + issued(n - 1)

\* JSONRPCServerAndClient.request on the session of socket s: the id is the
\* client's counter; a rejected send settles the call with an error at once
callRemote(s) ==
  /\ sockState[s] # "none"
  /\ issued(MaxSock) < MaxCalls
  /\ LET id == IdOf(Len(calls[s]) + 1)
         frames == send(Silent, s, createJSONRPCRequest(id, "peer.call")) IN
     /\ IF sendFails(s)
          THEN /\ calls' = [calls EXCEPT
                              ![s] = Append(@, [rejected |-> 1, resolved |-> 0,
                                                by |-> "send"])]
               /\ UNCHANGED pending
          ELSE /\ calls' = [calls EXCEPT
                              ![s] = Append(@, [rejected |-> 0, resolved |-> 0,
                                                by |-> ""])]
               /\ pending' = [pending EXCEPT ![s] = @ \cup {id}]
     /\ io' = Event("call", s, "", "", NoFrame, frames)
     /\ Written(frames)
  /\ UNCHANGED <<wss, listening, vault, clients, sockState, graphVersion, inflight>>

\* a discard that reports a parse error to the peer
discardWithError(s, text) ==
  /\ io' = Event("message", s, text, "discarded", NoFrame,
                 send(Silent, s, createJSONRPCErrorResponse(Undef, -32700, "Parse error")))
  /\ Written(send(Silent, s, createJSONRPCErrorResponse(Undef, -32700, "Parse error")))
  /\ UNCHANGED <<wss, listening, vault, clients, sockState, pending, calls, graphVersion, inflight>>

\* the payload is discarded: nothing is dispatched and nothing is sent
discard(s, text) ==
  /\ io' = Event("message", s, text, "discarded", NoFrame, Silent)
  /\ UNCHANGED <<wss, listening, vault, clients, sockState, pending, calls, graphVersion,
                 inflight, first, hellos>>

\* JSONRPCClient.receive: settle the pending call with the response's id
clientReceive(s, text, p) ==
  /\ IF p.id \in pending[s]
       THEN /\ pending' = [pending EXCEPT ![s] = @ \ {p.id}]
            /\ calls' = [calls EXCEPT ![s] =
                 [k \in DOMAIN @ |->
                    IF IdOf(k) # p.id THEN @[k]
                    ELSE IF p.result # Undef /\ p.error = Undef
                      THEN [@[k] EXCEPT !.resolved = @ + 1, !.by = "response"]
                    ELSE [@[k] EXCEPT !.rejected = @ + 1, !.by = "response"]]]
       ELSE UNCHANGED <<pending, calls>>
  /\ io' = Event("message", s, text, "response", NoFrame, Silent)
  /\ UNCHANGED <<wss, listening, vault, clients, sockState, graphVersion, inflight, first, hellos>>

respond(s, frame) == IF frame = NoFrame THEN Silent ELSE send(Silent, s, frame)

\* whether the promise of receiveAndSend is rejected: it is when the send of
\* the Response is
receiveAndSendRejects(s, frame) == frame # NoFrame /\ sendFails(s)

\* .catch(() => {}) on the promise of receiveAndSend: whether a rejection of
\* it is left unhandled
catchAll(rejected) == FALSE

\* the event of a request or notification whose handling has ended
Answered(op, s, text, what, frame) ==
  [Event(op, s, text, what, frame, respond(s, frame))
     EXCEPT !.rejected = receiveAndSendRejects(s, frame),
            !.unhandled = catchAll(receiveAndSendRejects(s, frame))]

\* a request or notification is settled: its response, if any, goes out
settle(s, text, frame) ==
  /\ io' = Answered("message", s, text, "settled", frame)
  /\ Written(respond(s, frame))
  /\ UNCHANGED inflight

\* JSONRPCServer.receive and the send of its response, up to the handler's
\* first await
serverReceive(s, text, p) ==
  /\ IF p.method.v \notin registerRpcMethods
       THEN settle(s, text, methodNotFound(p.id))
       ELSE LET o == callHandler(p.method.v, p.params, graphVersion, vault) IN
            IF o.st = "await"
              THEN /\ BagCardinality(inflight) < MaxMsgs
                   /\ inflight' = inflight (+) SetToBag({
                        IF o.pc = "" THEN [sock |-> s, text |-> text]
                        ELSE [sock |-> s, text |-> text, pc |-> o.pc]})
                   /\ io' = Event("message", s, text, "await", NoFrame, Silent)
                   /\ UNCHANGED <<first, hellos>>
              ELSE settle(s, text, mapOutcome(p.id, o))
  /\ UNCHANGED <<wss, listening, vault, clients, sockState, pending, calls, graphVersion>>

\* JSONRPCServerAndClient.receiveAndSend(payload).catch(() => {})
receiveAndSend(s, text, p) ==
  IF ~p.isObject THEN discard(s, text)
  ELSE IF isJSONRPCResponse(p) THEN clientReceive(s, text, p)
  ELSE IF isJSONRPCRequest(p) THEN serverReceive(s, text, p)
  ELSE discard(s, text)

\* ws.on("message")
OnMessage(s, raw) ==
  /\ sockState[s] \in {"open", "closing_local"}
  /\ LET text == rawToText(raw) IN
     IF text = "" THEN discard(s, text)
     ELSE IF ~JSONParse(text).ok THEN discard(s, text)
     ELSE receiveAndSend(s, text, JSONParse(text).payload)

\* a resume that answers for whichever request the server holds first
HandlerResumeShared(e, readOk) ==
  /\ BagIn(e, inflight)
  /\ LET x == CHOOSE x \in BagToSet(inflight) : TRUE
         p == JSONParse(x.text).payload
         frame == mapOutcome(p.id, rpcNoteGetPreviewResume(p.params, readOk))
         frames == respond(e.sock, frame) IN
     /\ io' = Event("resume", e.sock, e.text,
                    IF readOk THEN "read ok" ELSE "read failed", frame, frames)
     /\ Written(frames)
  /\ inflight' = inflight (-) SetToBag({e})
  /\ UNCHANGED <<wss, listening, vault, clients, sockState, pending, calls, graphVersion>>

\* vault.cachedRead settles and the suspended handler of request e runs on
HandlerResume(e, readOk) ==
  /\ BagIn(e, inflight)
  /\ "pc" \notin DOMAIN e
  /\ LET p == JSONParse(e.text).payload
         o == resumeHandler(p.method.v, p.params, readOk)
         frame == mapOutcome(p.id, o)
         frames == respond(e.sock, frame) IN
     /\ io' = [Answered("resume", e.sock, e.text,
                        IF readOk THEN "read ok" ELSE "read failed", frame)
                 EXCEPT !.reads = o.result.reads]
     /\ Written(frames)
  /\ inflight' = inflight (-) SetToBag({e})
  /\ UNCHANGED <<wss, listening, vault, clients, sockState, pending, calls, graphVersion>>

\* vault.createFolder or vault.create settles and the suspended
\* rpcNoteCreate handler of request e runs on
CreateResume(e, ok) ==
  /\ BagIn(e, inflight)
  /\ "pc" \in DOMAIN e
  /\ LET p == JSONParse(e.text).payload
         r == rpcNoteCreateResume(p.params, vault, e.pc, ok) IN
     /\ vault' = r.store
     /\ IF r.o.st = "await"
          THEN /\ inflight' = (inflight (-) SetToBag({e}))
                                (+) SetToBag({[e EXCEPT !.pc = r.o.pc]})
               /\ io' = Event("resume", e.sock, e.text, "await", NoFrame, Silent)
               /\ UNCHANGED <<first, hellos>>
          ELSE /\ inflight' = inflight (-) SetToBag({e})
               /\ io' = Answered("resume", e.sock, e.text,
                                 IF r.o.st = "return" THEN "created" ELSE "failed",
                                 mapOutcome(p.id, r.o))
               /\ Written(respond(e.sock, mapOutcome(p.id, r.o)))
  /\ UNCHANGED <<wss, listening, clients, sockState, pending, calls,
                 graphVersion>>

(* --------------------------- specifications ---------------------------- *)

\* the frames of RawFrames by what they decode to
TextOf(raw) == rawToText(raw)
ResponseFrames ==
  {raw \in RawFrames :
     /\ JSONParse(TextOf(raw)).ok
     /\ JSONParse(TextOf(raw)).payload.isObject
     /\ isJSONRPCResponse(JSONParse(TextOf(raw)).payload)}
RequestFrames ==
  {raw \in RawFrames :
     /\ raw.type = "buffer"
     /\ JSONParse(TextOf(raw)).ok
     /\ isJSONRPCRequest(JSONParse(TextOf(raw)).payload)
     /\ JSONParse(TextOf(raw)).payload.id # Undef}
OneWayFrames == RawFrames \ (RequestFrames \cup ResponseFrames)
SnapshotFrames ==
  {Raw("buffer", <<"{\"jsonrpc\":\"2.0\",\"id\":1,\"method\":\"graph.getSnapshot\"}">>)}
SinceFrames == {Raw("buffer", <<t>>) : t \in SinceTexts}
SearchFrames == {Raw("buffer", <<t>>) : t \in SearchTexts}
CreateFrames == {Raw("buffer", <<t>>) : t \in CreateTexts}
RefusalFrames == {Raw("buffer", <<t>>) : t \in RefusalTexts}

SocketStep ==
  \/ \E bindOk \in BOOLEAN : start(bindOk)
  \/ stop
  \/ \E s \in Sock : Connection(s)
  \/ \E s \in Sock : PeerClose(s)
  \/ \E s \in Sock : OnClose(s)

\* the whole program
Next ==
  \/ SocketStep
  \/ bumpGraphVersion
  \/ \E s \in Sock : callRemote(s)
  \/ \E s \in Sock :
       \E raw \in RawFrames \cup SinceFrames \cup SearchFrames \cup CreateFrames
                    \cup RefusalFrames :
         OnMessage(s, raw)
  \/ \E e \in BagToSet(inflight) : \E ok \in BOOLEAN : CreateResume(e, ok)
  \/ \E e \in BagToSet(inflight) : \E readOk \in BOOLEAN : HandlerResume(e, readOk)

Spec == Init /\ [][Next]_vars

\* inbound requests that carry an id; no vault events, no outbound calls
NextRequests ==
  \/ SocketStep
  \/ \E s \in Sock : \E raw \in RequestFrames : OnMessage(s, raw)
  \/ \E e \in BagToSet(inflight) : \E readOk \in BOOLEAN : HandlerResume(e, readOk)

SpecRequests == Init /\ [][NextRequests]_vars

\* inbound notifications, malformed frames and every frame type of the
\* codec; no vault events, no outbound calls
NextOneWay ==
  \/ SocketStep
  \/ \E s \in Sock : \E raw \in OneWayFrames : OnMessage(s, raw)
  \/ \E e \in BagToSet(inflight) : \E readOk \in BOOLEAN : HandlerResume(e, readOk)

SpecOneWay == Init /\ [][NextOneWay]_vars

\* vault events and snapshot requests; no suspended handlers, no outbound calls
NextBroadcast ==
  \/ SocketStep
  \/ bumpGraphVersion
  \/ \E s \in Sock : \E raw \in SnapshotFrames : OnMessage(s, raw)

SpecBroadcast == Init /\ [][NextBroadcast]_vars

\* vault events and snapshot requests with and without sinceVersion
NextSnapshot ==
  \/ SocketStep
  \/ bumpGraphVersion
  \/ \E s \in Sock : \E raw \in SnapshotFrames \cup SinceFrames : OnMessage(s, raw)

SpecSnapshot == Init /\ [][NextSnapshot]_vars

\* search.query requests from the peer of the first connection, on
\* connections that stay open
NextSearch ==
  \/ \E bindOk \in BOOLEAN : start(bindOk)
  \/ \E s \in Sock : Connection(s)
  \/ \E raw \in SearchFrames : OnMessage(1, raw)
  \/ \E e \in BagToSet(inflight) : \E readOk \in BOOLEAN : HandlerResume(e, readOk)

SpecSearch == Init /\ [][NextSearch]_vars

\* The frames of two note.getPreview requests, whose handler suspends
PreviewFrames ==
  {raw \in RequestFrames :
     JSONParse(TextOf(raw)).payload.params.v \in {"a.md", "b.md"}}

\* stop and restart, vault events, and requests from the peer of the first
\* connection whose handler is suspended meanwhile
NextStopped ==
  \/ SocketStep
  \/ bumpGraphVersion
  \/ \E raw \in PreviewFrames : OnMessage(1, raw)
  \/ \E e \in BagToSet(inflight) : \E readOk \in BOOLEAN : HandlerResume(e, readOk)

SpecStopped == Init /\ [][NextStopped]_vars

\* note.create requests on connections that stay open
NextCreate ==
  \/ \E bindOk \in BOOLEAN : start(bindOk)
  \/ \E s \in Sock : Connection(s)
  \/ \E s \in Sock : \E raw \in CreateFrames : OnMessage(s, raw)
  \/ \E e \in BagToSet(inflight) : \E ok \in BOOLEAN : CreateResume(e, ok)

SpecCreate == Init /\ [][NextCreate]_vars

\* note.create requests, among them the ones the handler refuses, on the
\* first connection
NextRefusal ==
  \/ \E bindOk \in BOOLEAN : start(bindOk)
  \/ \E s \in Sock : Connection(s)
  \/ \E raw \in CreateFrames \cup RefusalFrames : OnMessage(1, raw)
  \/ \E e \in BagToSet(inflight) : \E ok \in BOOLEAN : CreateResume(e, ok)

SpecRefusal == Init /\ [][NextRefusal]_vars

\* outbound calls and the peer's responses; no inbound requests
NextCalls ==
  \/ SocketStep
  \/ \E s \in Sock : callRemote(s)
  \/ \E s \in Sock : \E raw \in ResponseFrames : OnMessage(s, raw)

SpecCalls == Init /\ [][NextCalls]_vars

(* ------------------------ what the peer observes ----------------------- *)

\* the text is a Request: jsonrpc "2.0", a method and an id, as written
IsRequestText(t) ==
  /\ t \in DOMAIN WireTable
  /\ WireTable[t].isObject
  /\ isJSONRPCRequest(WireTable[t])
  /\ WireTable[t].id # Undef

\* the text is a Notification: jsonrpc "2.0", a method and no id
IsNotificationText(t) ==
  /\ t \in DOMAIN WireTable
  /\ WireTable[t].isObject
  /\ isJSONRPCRequest(WireTable[t])
  /\ WireTable[t].id = Undef

\* the id as the peer wrote it
WireId(t) == WireTable[t].id

\* the last event settled an inbound message: at once, or when its suspended
\* handler ran on
Settled == (io.op = "message" /\ io.what = "settled") \/ io.op = "resume"

\* the last event wrote exactly this frame, to this socket and no other
WroteOnly(s, frame) == io.frames = [Silent EXCEPT ![s] = <<frame>>]

\* a string id, or a number that a double holds exactly
ExactId(id) == id.t = "string" \/ ToDouble(id.v) = id.v

(* ------------------------------- C1 ------------------------------------ *)

\* C1 as stated, for a Request that arrived on an open socket (one that is
\* open, or that the peer has closed since) with an id a double holds
\* exactly: once it is settled, exactly one Response has been written to its
\* socket, and the Response's id is the id the peer wrote.
C1_Original ==
  (/\ Settled
   /\ IsRequestText(io.text)
   /\ ExactId(WireId(io.text))
   /\ sockState[io.sock] \in {"open", "closing_peer"}) =>
    /\ Len(io.frames[io.sock]) = 1
    /\ IsResponse(io.frames[io.sock][1])
    /\ io.frames[io.sock][1].id = WireId(io.text)

C1_AtSettle ==
  (Settled /\ IsRequestText(io.text)) =>
    /\ IsResponse(io.reply)
    /\ io.reply.id.t = WireId(io.text).t
    /\ ExactId(WireId(io.text)) => io.reply.id = WireId(io.text)
    /\ IF sockState[io.sock] = "open"
         THEN WroteOnly(io.sock, io.reply)
         ELSE io.frames = Silent

C1_NoStrayResponse ==
  \A s \in Sock : \A k \in DOMAIN io.frames[s] :
    IsResponse(io.frames[s][k]) =>
      Settled /\ IsRequestText(io.text) /\ s = io.sock

C1_SettledOnce ==
  /\ io'.op = "resume" =>
       /\ BagIn([sock |-> io'.sock, text |-> io'.text], inflight)
       /\ inflight' = inflight (-) SetToBag({[sock |-> io'.sock, text |-> io'.text]})
  /\ (io'.op = "message" /\ io'.what = "settled") => inflight' = inflight

\* a suspended handler can always run on, whatever else has happened
C1_NeverStuck ==
  \A e \in BagToSet(inflight) :
    ENABLED (\E readOk \in BOOLEAN : HandlerResume(e, readOk))

\* C1 (amended): a Request received on a session is settled once: at once, or
\* when its suspended handler runs on, which nothing can block.  The step
\* that settles it produces one Response whose id has the type of the
\* request's id and, for a string or a number a double holds exactly, its
\* value; the Response is written to the request's socket, once, if the
\* socket is open at that step and not at all otherwise.  No other step
\* writes a Response.
C1_ExactlyOneResponse ==
  /\ [](C1_AtSettle /\ C1_NoStrayResponse /\ C1_NeverStuck)
  /\ [][C1_SettledOnce]_vars

\* a Request with a string id whose handler failed after its await has been
\* answered on its socket
C1_Witness ==
  /\ io.op = "resume"
  /\ io.what = "read failed"
  /\ IsRequestText(io.text)
  /\ WireId(io.text).t = "string"
  /\ WroteOnly(io.sock, io.reply)

(* ------------------------------- C2 ------------------------------------ *)

\* the calls of session s that are still pending
Unsettled(s) ==
  {k \in DOMAIN calls[s] : calls[s][k].rejected + calls[s][k].resolved = 0}

C2_SettledOnce ==
  \A s \in Sock :
    /\ \A k \in DOMAIN calls[s] : calls[s][k].rejected + calls[s][k].resolved <= 1
    /\ pending[s] = {IdOf(k) : k \in Unsettled(s)}
    /\ (sockState[s] # "none" /\ s \notin clients) => pending[s] = {}

\* a drain of session s, by the close event of its socket or by stop(),
\* rejects the calls that are pending and touches no other
C2_Drain ==
  \A s \in Sock :
    ((io'.op = "close" /\ io'.sock = s) \/ (io'.op = "stop" /\ s \in clients)) =>
      \A k \in DOMAIN calls[s] :
        calls'[s][k] = IF IdOf(k) \in pending[s]
                         THEN [rejected |-> 1, resolved |-> 0, by |-> "drain"]
                         ELSE calls[s][k]

\* C2: a drain rejects each of the N calls that are pending, once, and leaves
\* none pending; no call is ever settled twice, so the drain run by the close
\* event after stop() has drained the session rejects nothing again; and once
\* a session has left the live set none of its calls is pending.
C2_DrainRejectsOnce == []C2_SettledOnce /\ [][C2_Drain]_vars

\* stop() drained a session with two pending calls, rejecting both, and the
\* socket's close event has then drained it again
C2_Witness ==
  /\ io.op = "close"
  /\ ~wss
  /\ Len(calls[io.sock]) = 2
  /\ \A k \in DOMAIN calls[io.sock] :
       calls[io.sock][k] = [rejected |-> 1, resolved |-> 0, by |-> "drain"]

(* ------------------------------- C3 ------------------------------------ *)

graphChanged(version) == createJSONRPCNotification("graph.changed", version)

\* C3 as stated: a mutation event sends every session of the live set one
\* graph.changed notification carrying the new version.
C3_Original ==
  io.op = "bump" =>
    \A s \in clients : io.frames[s] = <<graphChanged(graphVersion)>>

C3_Notified ==
  /\ io.op = "init" => graphVersion = 0
  /\ io.op = "bump" =>
       \A s \in Sock :
         io.frames[s] = IF s \in clients /\ sockState[s] = "open"
                          THEN <<graphChanged(graphVersion)>>
                          ELSE <<>>

C3_ByOne ==
  /\ graphVersion' >= graphVersion
  /\ graphVersion' # graphVersion => io'.op = "bump"
  /\ io'.op = "bump" => graphVersion' = graphVersion + 1

\* C3 (amended): each mutation event increases the change version by exactly
\* 1, and every session of the live set whose socket is open at that moment
\* is sent exactly one graph.changed notification carrying the new version;
\* a session whose socket is closing is sent nothing; the version starts at
\* 0, never decreases, and changes on no other event.
C3_BumpNotifies == []C3_Notified /\ [][C3_ByOne]_vars

\* the second mutation event has notified two open sessions
C3_Witness ==
  /\ io.op = "bump"
  /\ graphVersion = 2
  /\ \A s \in {1, 2} :
       s \in clients /\ io.frames[s] = <<graphChanged(2)>>

(* ------------------------------- C4 ------------------------------------ *)

\* C4: a socket has been written one hello, and that as its first frame, as
\* soon as its connection is accepted, and none before; the hello is the only
\* frame the connection event writes and carries the change version of that
\* moment.
C4_HelloFirst ==
  /\ \A s \in Sock :
       IF sockState[s] = "none"
         THEN hellos[s] = 0 /\ first[s] = NoFrame
         ELSE /\ hellos[s] = 1
              /\ first[s].kind = "notification"
              /\ first[s].method = "hello"
              /\ first[s].version <= graphVersion
  /\ io.op = "connection" =>
       WroteOnly(io.sock, createJSONRPCNotification("hello", graphVersion))

\* a session accepted after a mutation event got hello with version 1 first
\* and has since been written a Response
C4_Witness ==
  /\ io.op = "message"
  /\ io.what = "settled"
  /\ first[io.sock] = createJSONRPCNotification("hello", 1)
  /\ IsResponse(io.reply)
  /\ WroteOnly(io.sock, io.reply)

(* ------------------------------- C10 ----------------------------------- *)

\* C10: when a broadcast finds in the live set a session whose socket is not
\* open, that session is skipped and every session whose socket is open is
\* still written the notification, those later in the iteration included;
\* the broadcast completes.
C10_BroadcastIsolated ==
  (io.op = "bump" /\ \E r \in clients : sockState[r] # "open") =>
    /\ \A s \in clients :
         sockState[s] = "open" => io.frames[s] = <<graphChanged(graphVersion)>>
    /\ \A r \in clients : sockState[r] # "open" => io.frames[r] = <<>>

\* the broadcast skipped session 1, whose peer had closed, and reached
\* session 2 after it
C10_Witness ==
  /\ io.op = "bump"
  /\ clients = {1, 2}
  /\ sockState[1] = "closing_peer"
  /\ sockState[2] = "open"
  /\ io.frames[1] = <<>>
  /\ io.frames[2] = <<graphChanged(graphVersion)>>

(* ------------------------------- C5 ------------------------------------ *)

\* the id as JSON.parse delivers it
ParsedId(t) ==
  IF WireId(t).t = "number" THEN Num(ToDouble(WireId(t).v)) ELSE WireId(t)

SnapshotRequest ==
  Raw("buffer", <<"{\"jsonrpc\":\"2.0\",\"id\":1,\"method\":\"graph.getSnapshot\"}">>)

\* C5: a suspended handler that runs on answers with its own request's id
\* and, when its read succeeded, with the preview of its own request's path,
\* on its own socket, whatever other requests are in flight and in whatever
\* order they complete; and while handlers are suspended a message on any
\* socket that can receive is still processed.
C5_OwnResponse ==
  /\ (io.op = "resume" /\ IsRequestText(io.text)) =>
       /\ io.reply.id = ParsedId(io.text)
       /\ io.what = "read ok" =>
            /\ io.reply.kind = "result"
            /\ io.reply.text = WireTable[io.text].params.v
       /\ sockState[io.sock] = "open" => WroteOnly(io.sock, io.reply)
  /\ \A s \in Sock :
       (inflight # EmptyBag /\ sockState[s] = "open") =>
         ENABLED OnMessage(s, SnapshotRequest)

\* on socket 1 the request with id 2 has been answered while the request
\* with id "1" is still in flight there
C5_Witness ==
  /\ io.op = "resume"
  /\ io.sock = 1
  /\ WireId(io.text) = Num("2")
  /\ io.what = "read ok"
  /\ WroteOnly(1, io.reply)
  /\ \E e \in BagToSet(inflight) :
       e.sock = 1 /\ IsRequestText(e.text) /\ WireId(e.text) = Str("1")

(* ------------------------------- C6 ------------------------------------ *)

\* C6: the step that receives a Notification and the step that runs its
\* suspended handler on produce no Response and write no frame, whether the
\* handler succeeds, throws, rejects or is not registered; a Response is only
\* ever written for a message that has an id.
C6_NoResponseToNotification ==
  /\ (io.op \in {"message", "resume"} /\ IsNotificationText(io.text)) =>
       io.reply = NoFrame /\ io.frames = Silent
  /\ \A s \in Sock : \A k \in DOMAIN io.frames[s] :
       IsResponse(io.frames[s][k]) => IsRequestText(io.text)

\* the handler of a Notification has failed after its await
C6_Witness ==
  /\ io.op = "resume"
  /\ io.what = "read failed"
  /\ IsNotificationText(io.text)
  /\ sockState[io.sock] = "open"

(* ------------------------------- C7 ------------------------------------ *)

\* empty text, text that is not JSON, or JSON without jsonrpc "2.0"
IsMalformed(t) ==
  \/ t = ""
  \/ t \notin DOMAIN WireTable
  \/ WireTable[t].jsonrpc # V2

StringRequest ==
  Raw("string", <<"{\"jsonrpc\":\"2.0\",\"id\":4,\"method\":\"nope\"}">>)

C7_Dropped ==
  /\ (io.op = "message" /\ IsMalformed(io.text)) =>
       io.what = "discarded" /\ io.reply = NoFrame /\ io.frames = Silent
  /\ (io.op = "message" /\ io.what = "discarded" /\ sockState[io.sock] = "open") =>
       ENABLED (/\ OnMessage(io.sock, StringRequest)
                /\ io'.what = "settled"
                /\ io'.frames[io.sock] # <<>>)

C7_NoEffect ==
  (io'.op = "message" /\ IsMalformed(io'.text)) =>
    UNCHANGED <<wss, listening, vault, clients, sockState, pending, calls, graphVersion, inflight,
                first, hellos>>

\* C7: a frame that decodes to empty text, to text that is not JSON or to
\* JSON without jsonrpc "2.0" is discarded: no handler is started, no frame
\* is written to any socket, nothing of the server or its sessions changes,
\* and a request that follows on the same socket is answered.
C7_MalformedDropped == []C7_Dropped /\ [][C7_NoEffect]_vars

\* a frame without jsonrpc has been discarded on an open socket
C7_Witness ==
  /\ io.op = "message"
  /\ io.what = "discarded"
  /\ io.text = "{\"id\":1,\"method\":\"graph.getSnapshot\"}"
  /\ sockState[io.sock] = "open"

(* ------------------------------- C8 ------------------------------------ *)

IsUnregistered(t) ==
  IsRequestText(t) /\ WireTable[t].method.v \notin registerRpcMethods

\* C8: a Request with an id that names an unregistered method is settled at
\* once with the error Response -32601 "Method not found" carrying its id,
\* and the Response is written to the socket of every such request that
\* arrives on a session of the live set.
C8_MethodNotFound ==
  (io.op = "message" /\ IsUnregistered(io.text)) =>
    /\ io.what = "settled"
    /\ io.reply = Frame("error", ParsedId(io.text), "", -1, "Method not found", -32601)
    /\ io.sock \in clients => WroteOnly(io.sock, io.reply)

\* a request for the method "nope" has been answered
C8_Witness ==
  /\ io.op = "message"
  /\ io.text = "{\"jsonrpc\":\"2.0\",\"id\":4,\"method\":\"nope\"}"
  /\ io.sock \in clients
  /\ WroteOnly(io.sock, io.reply)

(* ------------------------------- C9 ------------------------------------ *)

\* the handler of the request just settled threw or rejected, with message m
Failed(m) ==
  /\ Settled
  /\ IsRequestText(io.text)
  /\ WireTable[io.text].method.v = "note.getPreview"
  /\ \/ /\ io.op = "message"
        /\ rpcNoteGetPreview(WireTable[io.text].params).st = "throw"
        /\ m = rpcNoteGetPreview(WireTable[io.text].params).message
     \/ /\ io.op = "resume"
        /\ io.what = "read failed"
        /\ m = "read failed"

C9_Converted ==
  /\ \A m \in {"Missing params.path", "read failed"} :
       Failed(m) =>
         /\ io.reply = Frame("error", ParsedId(io.text), "", -1, m, 0)
         /\ sockState[io.sock] = "open" => WroteOnly(io.sock, io.reply)
  /\ (Settled /\ sockState[io.sock] = "open") =>
       ENABLED (/\ OnMessage(io.sock, SnapshotRequest)
                /\ io'.frames[io.sock] # <<>>)

C9_SessionKept ==
  io'.op \in {"message", "resume"} =>
    UNCHANGED <<wss, listening, vault, clients, sockState>>

\* C9: a handler that throws or rejects while processing a Request yields the
\* error Response with the request's id, code 0 and the error's message,
\* written to the socket if it is open; the step changes neither the live
\* set nor any socket, and a later request on the same socket is answered.
C9_FailureConverted == []C9_Converted /\ [][C9_SessionKept]_vars

\* a handler threw before its first await and the error went to the peer of
\* a session that is still in the live set
C9_Witness ==
  /\ Failed("Missing params.path")
  /\ io.sock \in clients
  /\ WroteOnly(io.sock, io.reply)

(* ------------------------------- C11 ----------------------------------- *)

\* the server is not listening exactly when it has no session to iterate
C11_StoppedIsEmpty == ~wss => clients = {}

C11_Stop ==
  io'.op = "stop" =>
    /\ ~wss'
    /\ clients' = {}
    /\ \A s \in clients :
         /\ pending'[s] = {}
         /\ \A k \in DOMAIN calls'[s] :
              calls'[s][k].rejected + calls'[s][k].resolved = 1
         /\ sockState'[s] \in {"closing_local", "closing_peer"}
    /\ \A s \in Sock \ clients :
         /\ sockState'[s] = sockState[s]
         /\ pending'[s] = pending[s]
         /\ calls'[s] = calls[s]
    /\ ~wss => UNCHANGED <<wss, listening, vault, clients, sockState, pending, calls,
                           graphVersion, inflight, first, hellos>>

C11_Start == io'.op = "start" => (wss' /\ clients' = {})

\* C11: a stop() step, from any state, leaves the server not listening and
\* the live set empty; every session that was in the live set has no call
\* pending, each of its calls settled exactly once, and its socket closing;
\* sessions not in the live set are not touched; stop() on a stopped server
\* changes nothing; and the start() that follows listens with an empty live
\* set.
C11_StopThenStart ==
  []C11_StoppedIsEmpty /\ [][C11_Stop]_vars /\ [][C11_Start]_vars

\* start() has run again after a stop() that drained a pending call of a
\* session whose socket is still closing
C11_Witness ==
  /\ io.op = "start"
  /\ wss
  /\ clients = {}
  /\ \E s \in Sock :
       /\ sockState[s] = "closing_local"
       /\ \E k \in DOMAIN calls[s] : calls[s][k].by = "drain"

(* ------------------------------- C12 ----------------------------------- *)

\* a socket that is open has a session, a closed socket has none, and while
\* the server listens every session's socket awaits its close event
C12_LiveSet ==
  \A s \in Sock :
    /\ sockState[s] = "open" => s \in clients
    /\ sockState[s] \in {"none", "closed"} => s \notin clients
    /\ (wss /\ s \in clients) => sockState[s] \in {"open", "closing_peer"}

C12_Accept ==
  io'.op = "connection" =>
    /\ io'.sock \notin clients
    /\ clients' = clients \cup {io'.sock}

C12_Close ==
  io'.op = "close" =>
    /\ clients' = clients \ {io'.sock}
    /\ pending'[io'.sock] = {}
    /\ \A k \in DOMAIN calls'[io'.sock] :
         calls'[io'.sock][k].rejected + calls'[io'.sock][k].resolved = 1

C12_Otherwise ==
  io'.op \notin {"connection", "close", "stop"} => clients' = clients

\* C12: the live set changes only on accept, on a socket's close event and
\* on stop(): an accepted connection is added when it is accepted, which it
\* was not in before; a socket's close event drains its session and removes
\* it; so while the server listens the live set is the set of connections it
\* has accepted whose close event has not been processed, and no session of
\* a closed socket is ever in the set.
C12_LiveSetExact ==
  /\ []C12_LiveSet
  /\ [][C12_Accept]_vars
  /\ [][C12_Close]_vars
  /\ [][C12_Otherwise]_vars

\* while listening, the close event of one of two accepted connections has
\* been processed: the live set holds the other one only
C12_Witness ==
  /\ io.op = "close"
  /\ wss
  /\ sockState[io.sock] = "closed"
  /\ \E s \in Sock : clients = {s} /\ s # io.sock /\ sockState[s] = "open"

(* ------------------------------- C13 ----------------------------------- *)

\* C13: when start() has run and the port could not be bound, start() has
\* reported the failure to its caller (it threw) and the server object is
\* not held as if it were listening.
C13_Original ==
  (io.op = "start" /\ ~listening) => (io.what = "threw" /\ ~wss)

(* ------------------------------- C14 ----------------------------------- *)

\* the last event received a graph.getSnapshot request
SnapshotAsked ==
  /\ io.op = "message"
  /\ IsRequestText(io.text)
  /\ WireTable[io.text].method.v = "graph.getSnapshot"

\* the sinceVersion the request carries, Undef when it carries none
SinceOf(t) ==
  IF WireTable[t].params = Undef THEN Undef ELSE WireTable[t].params.sinceVersion

\* C14 as stated: the answer is {version, changed: false} if and only if
\* sinceVersion is a number that is at least the current version, and the
\* full snapshot when it is smaller, absent or not a number.
C14_Original ==
  SnapshotAsked =>
    (io.reply.text = "unchanged" <=>
       (SinceOf(io.text).t = "number"
        /\ Decimal(SinceOf(io.text).v) >= graphVersion))

C14_Answer ==
  SnapshotAsked =>
    /\ io.what = "settled"
    /\ io.reply.kind = "result"
    /\ io.reply.id = ParsedId(io.text)
    /\ io.reply.version = graphVersion
    /\ io.reply.text \in {"unchanged", "snapshot"}
    /\ io.reply.text = "unchanged" <=>
         /\ SinceOf(io.text) \notin {Undef, JsNull}
         /\ Geq(ToNumber(SinceOf(io.text)), Finite(graphVersion))

C14_ReadOnly == io'.op = "message" => graphVersion' = graphVersion

\* C14: graph.getSnapshot never fails and never changes the version; its
\* answer carries the current version and is {version, changed: false} if
\* and only if sinceVersion is present, not null, and Number(sinceVersion) is
\* at least the current version, which holds for a number that is at least
\* the version and also for a string, boolean or array that converts to
\* such a number; otherwise the answer is the full snapshot.
C14_SnapshotOrUnchanged == []C14_Answer /\ [][C14_ReadOnly]_vars

\* at version 2 a request with sinceVersion "2" (a string) was answered
\* {version: 2, changed: false}
C14_Witness ==
  /\ SnapshotAsked
  /\ SinceOf(io.text) = Str("2")
  /\ graphVersion = 2
  /\ io.reply.text = "unchanged"
  /\ WroteOnly(io.sock, io.reply)

(* ------------------------------- C15 ----------------------------------- *)

\* the last event settled a search.query request
SearchSettled ==
  /\ Settled
  /\ IsRequestText(io.text)
  /\ WireTable[io.text].method.v = "search.query"

\* C15: a search.query with a non-empty q returns at most 200 results, at
\* most 50 when it carries no limit and at most the limit when the limit is
\* a number; a search.query whose q is empty or only whitespace is answered
\* with an error Response.
C15_Original ==
  SearchSettled =>
    LET p == WireTable[io.text].params IN
    /\ Len(io.reply.results) <= 200
    /\ p.limit = Undef => Len(io.reply.results) <= 50
    /\ (p.limit.t = "number" /\ Decimal(p.limit.v) >= 0) =>
         Len(io.reply.results) <= Decimal(p.limit.v)
    /\ p.limit.t = "number" /\ Decimal(p.limit.v) < 0 => io.reply.results = <<>>
    /\ p.q.v \in {"", "  "} => io.reply.kind = "error"

(* ------------------------------- C18 ----------------------------------- *)

HoldsFoo(f) == Contains(f, "foo")

\* C18: when a search.query handler has finished, the files whose content it
\* read are an initial stretch of the store's file order, its results are
\* exactly the matching files among them, in that order, and if the number
\* of results reached the limit then the last file read is the one that
\* supplied the last result, so nothing was read after the limit was
\* reached; a search that returns before its first read reads nothing.
C18_ShortCircuit ==
  SearchSettled =>
    LET lim == searchLimit(WireTable[io.text].params)
        results == io.reply.results IN
    /\ io.op = "message" => (io.reads = <<>> /\ results = <<>>)
    /\ (io.op = "resume" /\ io.what = "read ok") =>
         /\ io.reads = SubSeq(getMarkdownFiles, 1, Len(io.reads))
         /\ results = SelectSeq(io.reads, HoldsFoo)
         /\ Geq(Finite(Len(results)), lim) =>
              /\ Len(results) = lim.n
              /\ io.reads[Len(io.reads)] = results[Len(results)]
         /\ ~Geq(Finite(Len(results)), lim) => Len(io.reads) = MaxFiles

\* a search with limit 2 read the first three notes, of which the second
\* does not match, and returned the first and the third
C18_Witness ==
  /\ SearchSettled
  /\ io.op = "resume"
  /\ WireTable[io.text].params.limit = Num("2")
  /\ io.reads = <<1, 2, 3>>
  /\ io.reply.results = <<1, 3>>

(* ------------------------------- C16 ----------------------------------- *)

\* the request note.create {path: "a/b/c.md", heading: "H", body: "text  "}
CreateC == CreateText(<<"7", "note.create", "a/b/c.md", "H", <<"text  ">>>>)

NoteC == [path |-> "a/b/c.md", content |-> "# H\n\ntext\n"]

\* a folder exists only when its parent does, and a note only when its
\* folders do
C16_InOrder ==
  /\ "a/b" \in vault.folders => "a" \in vault.folders
  /\ vault.files # {} => {"a", "a/b"} \subseteq vault.folders

\* each resumed step of the request makes one missing folder and suspends
\* again, or writes the note and answers created:true, or fails and leaves
\* the store alone
C16_Steps ==
  [][(io'.op = "resume" /\ io'.text = CreateC) =>
       CASE io'.what = "await" ->
              /\ vault'.files = vault.files
              /\ \E d \in {"a", "a/b"} :
                   /\ d \notin vault.folders
                   /\ vault'.folders = vault.folders \cup {d}
         [] io'.what = "created" ->
              /\ vault'.folders = vault.folders
              /\ NoteC \notin vault.files
              /\ vault'.files = vault.files \cup {NoteC}
              /\ io'.reply.kind = "result"
              /\ io'.reply.id = Num("7")
              /\ io'.reply.created
         [] OTHER ->
              /\ vault' = vault
              /\ io'.reply.kind = "error"
              /\ io'.reply.text \in {"write failed", "Folder already exists.",
                                     "File already exists."}]_vars

\* the request suspends when it arrives and the note does not exist, on the
\* creation of the first folder that is missing
C16_First ==
  [][(io'.op = "message" /\ io'.text = CreateC
        /\ ~\E f \in vault.files : f.path = "a/b/c.md") =>
       /\ vault' = vault
       /\ io'.reply = NoFrame
       /\ \E e \in BagToSet(inflight') :
            /\ "pc" \in DOMAIN e
            /\ e.text = CreateC
            /\ e.pc = (IF "a" \notin vault.folders THEN "a"
                       ELSE IF "a/b" \notin vault.folders THEN "a/b"
                       ELSE "create")]_vars

\* the same request arriving when the note exists is refused at once and
\* nothing is created
C16_Second ==
  [][(io'.op = "message" /\ io'.text = CreateC
        /\ \E f \in vault.files : f.path = "a/b/c.md") =>
       /\ vault' = vault
       /\ inflight' = inflight
       /\ io'.reply.kind = "error"
       /\ io'.reply.id = Num("7")
       /\ io'.reply.text = "File already exists: a/b/c.md"]_vars

\* C16: note.create for a/b/c.md with heading H, when a and a/b do not
\* exist, creates a, then a/b, then the note, whose content is the line
\* "# H", an empty line and the body without its trailing blanks, and answers
\* created:true; the same request received after that is answered with
\* "File already exists: a/b/c.md" and the store is left as it was.
C16_CreateRoundTrip ==
  /\ []C16_InOrder
  /\ C16_First
  /\ C16_Steps
  /\ C16_Second

\* the note was created in an empty store and the request, sent again, has
\* just been refused
C16_Witness ==
  /\ io.op = "message"
  /\ io.text = CreateC
  /\ io.reply.text = "File already exists: a/b/c.md"
  /\ vault = [folders |-> {"a", "a/b"}, files |-> {NoteC}]

(* ------------------------------- C17 ----------------------------------- *)

\* C17 as stated: an outbound call on a live session is rejected only by a
\* Response-Error for its id or by the drain of its session, never when it
\* is issued.
C17_Original ==
  \A s \in clients : \A k \in DOMAIN calls[s] :
    calls[s][k].rejected > 0 => calls[s][k].by \in {"response", "drain"}

(* ------------------------------- C19 ----------------------------------- *)

\* the notifications among the frames that the step to the next state
\* writes to socket s
Notified(s) == SelectSeq(io'.frames[s], LAMBDA f : f.kind = "notification")

\* a socket is accepted with one hello that carries the current version
C19_Hello ==
  [][\A s \in Sock :
       (sockState[s] = "none" /\ sockState'[s] = "open") =>
         /\ graphVersion' = graphVersion
         /\ Len(Notified(s)) = 1
         /\ Notified(s)[1].method = "hello"
         /\ Notified(s)[1].version = graphVersion]_vars

\* the version moves by one at a time, and the step that moves it writes to
\* every open socket one graph.changed that carries the new version
C19_Change ==
  [][graphVersion' # graphVersion =>
       /\ graphVersion' = graphVersion + 1
       /\ sockState' = sockState
       /\ \A s \in Sock :
            sockState[s] = "open" =>
              /\ Len(Notified(s)) = 1
              /\ Notified(s)[1].method = "graph.changed"
              /\ Notified(s)[1].version = graphVersion']_vars

\* no other step writes a notification to a socket that is open
C19_Quiet ==
  [][\A s \in Sock :
       (sockState[s] = "open" /\ graphVersion' = graphVersion) =>
         Notified(s) = <<>>]_vars

\* C19: on a socket that stays open the notifications are a hello with the
\* version v0 at the time of the connection followed by graph.changed with
\* v0+1, v0+2, ... and nothing else: the socket is accepted with a hello that
\* carries the current version, every change of the version is by one and is
\* notified to every open socket with the new version, and no other step
\* writes a notification to an open socket; an open socket has a live
\* session.  So the last version sent to an open socket is the current one.
C19_GapFree ==
  /\ [](\A s \in Sock : sockState[s] = "open" => s \in clients)
  /\ C19_Hello
  /\ C19_Change
  /\ C19_Quiet

\* the second socket was accepted at version 1 and has just been notified of
\* version 2, together with the first socket
C19_Witness ==
  /\ io.op = "bump"
  /\ graphVersion = 2
  /\ sockState = [s \in Sock |-> IF s <= 2 THEN "open" ELSE "none"]
  /\ first[2].method = "hello"
  /\ first[2].version = 1
  /\ io.frames[1] = io.frames[2]
  /\ Len(io.frames[2]) = 1
  /\ io.frames[2][1].version = 2

(* ------------------------------- C20 ----------------------------------- *)

\* the request createNote {path: "a//b/d.md", heading: "H2"}
CreateD == CreateText(<<"8", "createNote", "a//b/d.md", "H2", <<>>>>)

\* C20 as stated: while note.create requests for a/b/c.md and a/b/d.md are
\* in flight together, neither fails unless a store operation of its own
\* fails for a reason other than the folder being there already.
C20_Original ==
  (/\ io.op = "resume"
   /\ io.what = "failed"
   /\ io.text \in {CreateC, CreateD}
   /\ \E e \in BagToSet(inflight) : e.text \in {CreateC, CreateD} \ {io.text}) =>
    io.reply.text = "write failed"

(* ------------------------------- C21 ----------------------------------- *)

\* the messages of the errors that rpcNoteCreate and ensureFolderPath throw
\* themselves
Refusals ==
  {"Missing params.path", "Missing params.heading",
   "params.path must end with .md"}
  \cup {"File already exists: " \o q :
          q \in {"a/b/c.md", "a/b/d.md", "a/b/c.md/x.md"}}
  \cup {"Path segment is not a folder: " \o q : q \in {"a", "a/b", "a/b/c.md"}}

\* the step to the next state answers a note.create request with one of
\* these errors
Refused ==
  /\ io'.text \in CreateTexts \cup RefusalTexts
  /\ io'.reply.kind = "error"
  /\ io'.reply.text \in Refusals

Retired(s) == sockState[s] # "none" /\ s \notin clients

\* no step writes a frame to a socket that has no session any more
C22_NoFrame ==
  [][\A s \in Sock : Retired(s) => io'.frames[s] = <<>>]_vars

\* a handler that ends on a socket that stop has closed has its Response
\* refused by the send callback, and that rejection is handled
C22_Suspended ==
  [][(/\ io'.op = "resume"
      /\ sockState[io'.sock] = "closing_local"
      /\ io'.reply # NoFrame) =>
       (/\ io'.frames = Silent
        /\ io'.rejected
        /\ ~io'.unhandled)]_vars

\* C22: once stop has returned, no frame is written to a socket that had a
\* session before it: stop leaves every such socket without a session, a
\* vault event after it notifies none of them, and a handler that was
\* suspended when stop ran writes no Response when it ends; the rejected
\* send of that Response is never left unhandled.
C22_NothingAfterStop ==
  /\ [][io'.op = "stop" => \A s \in Sock : sockState[s] # "none" => Retired(s)']_vars
  /\ C22_NoFrame
  /\ C22_Suspended
  /\ [](~io.unhandled)

\* stop ran while the handler of a request of the first socket was
\* suspended; the handler has just ended with a result and nothing was
\* written
C22_Witness ==
  /\ io.op = "resume"
  /\ io.sock = 1
  /\ io.what = "read ok"
  /\ io.reply.kind = "result"
  /\ io.rejected
  /\ io.frames = Silent
  /\ sockState[1] = "closing_local"
  /\ ~wss

====
